---- MODULE Spec2Model ----
(***************************************************************************)
(* torchdata.modifiers: predicate-gated proxies over a cacher.             *)
(*                                                                         *)
(* A modifier wraps one cacher and forwards __contains__ / __setitem__ to  *)
(* it only when condition(index) holds; __getitem__ is forwarded always.   *)
(* Modifiers are combined with | and & into Any / All.                     *)
(*                                                                         *)
(* Two specifications share the variables below:                           *)
(*   Spec       modifiers are constructed and combined, and their          *)
(*              condition is evaluated;                                    *)
(*   ProxySpec  starts right after one constructor call and drives the     *)
(*              three proxy methods of the modifier it produced against    *)
(*              the cacher it wraps.                                       *)
(***************************************************************************)
EXTENDS Integers, Sequences, FiniteSets, TLC

VARIABLES
    modifiers,  \* the modifier objects that exist (they are never mutated)
    cachers,    \* cacher name -> [data: dict index -> sample, ncontains: calls of its __contains__]
    last,       \* the most recent call: [op, self, args, ret]
    ctor,       \* ProxySpec: the constructor call that produced the wrapped modifier
    issued,     \* ProxySpec: indices for which modifier[index] = data was called
    warm        \* ProxySpec: whether the cacher already held samples when it was wrapped

vars == <<modifiers, cachers, last, ctor, issued, warm>>

(***************************************************************************)
(* Bounds of the model.                                                    *)
(***************************************************************************)
MaxMods  == 3   \* modifier objects alive in Spec
MaxIndex == 2   \* sample indices are 0..MaxIndex
MaxArity == 2   \* positional arguments of All(...) / Any(...)
MaxCalls == 2   \* calls of a cacher's __contains__ that are counted

Cachers   == {"c1", "c2"}
Data      == {"x"}                          \* the sample given to modifier[index] = data
Indexes   == 0..MaxIndex

\* Arguments of the constructor calls in Spec, where modifiers are combined:
\* the classes and the cachers vary, the thresholds do not.
IndexArgs  == {1}                           \* index of UpToIndex / FromIndex
IndexLists == {<<0, 2, 2>>}                 \* the indices given to Indices

\* Arguments of the one constructor call ProxySpec starts from.  A leaf
\* wraps c1; c2 is the other cacher, which its calls must leave alone.
ProxyCachers    == {"c1"}
ProxyIndexArgs  == Indexes
ProxyPs         == {<<n, 4>> : n \in (0 - 1)..5}  \* -0.25, 0, 0.25, 0.5, 0.75, 1, 1.25
ProxyLengths    == {0, 2, 3}
ProxyIndexLists == {<<>>, <<1>>, <<0, 2, 2>>}

(***************************************************************************)
(* Python values: a call either returns a value or raises.                 *)
(* A value is None, a bool, a sample or a modifier object.                  *)
(***************************************************************************)
None    == [kind |-> "None",   bool |-> FALSE, data |-> "", obj |-> <<>>]
Bool(b) == [kind |-> "bool",   bool |-> b,     data |-> "", obj |-> <<>>]
Smp(d)  == [kind |-> "sample", bool |-> FALSE, data |-> d,  obj |-> <<>>]
Obj(o)  == [kind |-> "object", bool |-> FALSE, data |-> "", obj |-> <<o>>]

NoExc == ""
Return(v) == [exc |-> NoExc, val |-> v]
Raise(e)  == [exc |-> e, val |-> None]

(***************************************************************************)
(* Class hierarchy.  UserUpToIndex stands for a user extension of a        *)
(* provided modifier ("extend them by inheriting"): it inherits            *)
(* UpToIndex.__init__ and UpToIndex.condition.                             *)
(***************************************************************************)
UserClass == "UserUpToIndex"

Base(cls) ==
    CASE cls = "Modifier"       -> "Base"
      [] cls = "_Mix"           -> "Modifier"
      [] cls = "All"            -> "_Mix"
      [] cls = "Any"            -> "_Mix"
      [] cls = "_Percent"       -> "Modifier"
      [] cls = "UpToPercentage" -> "_Percent"
      [] cls = "FromPercentage" -> "_Percent"
      [] cls = "_Index"         -> "Modifier"
      [] cls = "UpToIndex"      -> "_Index"
      [] cls = "FromIndex"      -> "_Index"
      [] cls = "Indices"        -> "Modifier"
      [] cls = UserClass        -> "UpToIndex"
      [] OTHER                  -> "object"

RECURSIVE Mro(_)
Mro(cls) == IF cls = "object" THEN {"object"} ELSE {cls} \cup Mro(Base(cls))

type(obj) == obj.type

\* variant: exact type comparison instead of isinstance
isinstance_exact(obj, cls) == type(obj) = cls

isinstance(obj, cls) == cls \in Mro(type(obj))

IndexClasses   == {"UpToIndex", "FromIndex", UserClass}
PercentClasses == {"UpToPercentage", "FromPercentage"}
MixClasses     == {"All", "Any"}

(***************************************************************************)
(* A modifier object.  An attribute its class never assigns keeps the      *)
(* default below and is never read by that class's methods.                *)
(***************************************************************************)
NoCacher == ""

Object(cls, cacher) ==
    [type |-> cls, cacher |-> cacher, index |-> 0, threshold |-> 0,
     indices |-> <<>>, modifiers |-> <<>>]

(***************************************************************************)
(* int(length * p) for p = p[1]/p[2], p[2] > 0: the product is exact for   *)
(* the quarters used here, and int() truncates toward zero.                *)
(***************************************************************************)
int(num, den) == IF num >= 0 THEN num \div den ELSE 0 - ((0 - num) \div den)

(***************************************************************************)
(* Constructors.                                                           *)
(***************************************************************************)
_Index__init__(cls, cacher, index) ==
    Return(Obj([Object(cls, cacher) EXCEPT !.index = index]))

\* variant: the upper endpoint p = 1 is accepted
_Percent__init___closed(cls, cacher, p, length) ==
    IF ~(0 < p[1] /\ p[1] <= p[2])
    THEN Raise("ValueError")
    ELSE Return(Obj([Object(cls, cacher) EXCEPT !.threshold = int(length * p[1], p[2])]))

_Percent__init__(cls, cacher, p, length) ==
    IF ~(0 < p[1] /\ p[1] < p[2])
    THEN Raise("ValueError")
    ELSE Return(Obj([Object(cls, cacher) EXCEPT !.threshold = int(length * p[1], p[2])]))

Indices__init__(cacher, indices) ==
    Return(Obj([Object("Indices", cacher) EXCEPT !.indices = indices]))

_Mix__init__(cls, mods) ==
    IF Len(mods) = 0
    THEN Raise("IndexError")
    ELSE LET first_type == type(mods[1]) IN
         IF ~(\A k \in 1..Len(mods) : isinstance(mods[k], first_type))
         THEN Raise("ValueError")
         ELSE Return(Obj([Object(cls, mods[1].cacher) EXCEPT !.modifiers = mods]))

Modifier__or__(self, other)  == _Mix__init__("Any", <<self, other>>)

Modifier__and__(self, other) == _Mix__init__("All", <<self, other>>)

(***************************************************************************)
(* condition.  Call_condition is a call of modifier.condition with the     *)
(* positional arguments args: the                                          *)
(* method takes exactly one positional argument besides self.              *)
(***************************************************************************)
UpToIndex_condition(self, index) == Return(Bool(index < self.index))

FromIndex_condition(self, index) == Return(Bool(index > self.index))

UpToPercentage_condition(self, index) == Return(Bool(index < self.threshold))

\* variant: the threshold itself is included
FromPercentage_condition_inclusive(self, index) == Return(Bool(index >= self.threshold))

FromPercentage_condition(self, index) == Return(Bool(index > self.threshold))

Indices_condition(self, index) ==
    Return(Bool(\E k \in 1..Len(self.indices) : self.indices[k] = index))

\* all(...) / any(...) over the values a generator yields, in order
RECURSIVE py_all(_)
py_all(results) ==
    IF results = <<>> THEN Return(Bool(TRUE))
    ELSE IF Head(results).exc # NoExc THEN Head(results)
    ELSE IF ~Head(results).val.bool THEN Return(Bool(FALSE))
    ELSE py_all(Tail(results))

RECURSIVE py_any(_)
py_any(results) ==
    IF results = <<>> THEN Return(Bool(FALSE))
    ELSE IF Head(results).exc # NoExc THEN Head(results)
    ELSE IF Head(results).val.bool THEN Return(Bool(TRUE))
    ELSE py_any(Tail(results))

RECURSIVE Call_condition(_, _)

All_condition(self, index) ==
    py_all([k \in 1..Len(self.modifiers) |-> Call_condition(self.modifiers[k], <<>>)])

Any_condition(self, index) ==
    py_any([k \in 1..Len(self.modifiers) |-> Call_condition(self.modifiers[k], <<>>)])

Call_condition(self, args) ==
    IF Len(args) # 1 THEN Raise("TypeError")
    ELSE CASE "All" \in Mro(type(self))            -> All_condition(self, args[1])
           [] "Any" \in Mro(type(self))            -> Any_condition(self, args[1])
           [] "UpToPercentage" \in Mro(type(self)) -> UpToPercentage_condition(self, args[1])
           [] "FromPercentage" \in Mro(type(self)) -> FromPercentage_condition(self, args[1])
           [] "UpToIndex" \in Mro(type(self))      -> UpToIndex_condition(self, args[1])
           [] "FromIndex" \in Mro(type(self))      -> FromIndex_condition(self, args[1])
           [] "Indices" \in Mro(type(self))        -> Indices_condition(self, args[1])

(***************************************************************************)
(* The cacher capability: a dict of samples with a call counter on its     *)
(* membership test.                                                        *)
(***************************************************************************)
EmptyCacher == [data |-> <<>>, ncontains |-> 0]

Cacher__contains__(cs, c, index) ==
    [ret     |-> Return(Bool(index \in DOMAIN cs[c].data)),
     cachers |-> [cs EXCEPT ![c].ncontains = @ + 1]]

Cacher__setitem__(cs, c, index, data) ==
    [ret     |-> Return(None),
     cachers |-> [cs EXCEPT ![c].data =
                    [k \in (DOMAIN @) \cup {index} |-> IF k = index THEN data ELSE @[k]]]]

Cacher__getitem__(cs, c, index) ==
    [ret     |-> IF index \in DOMAIN cs[c].data
                 THEN Return(Smp(cs[c].data[index])) ELSE Raise("KeyError"),
     cachers |-> cs]

(***************************************************************************)
(* The proxy methods of Modifier.                                          *)
(***************************************************************************)
\* variant: the cacher is queried before the condition is looked at
Modifier__contains___eager(self, index, cs) ==
    LET c == Call_condition(self, <<index>>)
        r == Cacher__contains__(cs, self.cacher, index) IN
    IF c.exc # NoExc THEN [ret |-> c, cachers |-> cs]
    ELSE [ret |-> Return(Bool(c.val.bool /\ r.ret.val.bool)), cachers |-> r.cachers]

Modifier__contains__(self, index, cs) ==
    LET c == Call_condition(self, <<index>>) IN
    IF c.exc # NoExc THEN [ret |-> c, cachers |-> cs]
    ELSE IF c.val.bool THEN Cacher__contains__(cs, self.cacher, index)
    ELSE [ret |-> Return(Bool(FALSE)), cachers |-> cs]

\* variant: an excluded index is an error instead of a silent skip
Modifier__setitem___strict(self, index, data, cs) ==
    LET c == Call_condition(self, <<index>>) IN
    IF c.exc # NoExc THEN [ret |-> c, cachers |-> cs]
    ELSE IF c.val.bool THEN Cacher__setitem__(cs, self.cacher, index, data)
    ELSE [ret |-> Raise("KeyError"), cachers |-> cs]

\* variant: the write is not gated by the condition
Modifier__setitem___ungated(self, index, data, cs) ==
    LET c == Call_condition(self, <<index>>) IN
    IF c.exc # NoExc THEN [ret |-> c, cachers |-> cs]
    ELSE Cacher__setitem__(cs, self.cacher, index, data)

Modifier__setitem__(self, index, data, cs) ==
    LET c == Call_condition(self, <<index>>) IN
    IF c.exc # NoExc THEN [ret |-> c, cachers |-> cs]
    ELSE IF c.val.bool THEN Cacher__setitem__(cs, self.cacher, index, data)
    ELSE [ret |-> Return(None), cachers |-> cs]

\* variant: the read is gated by the condition like the other two methods
Modifier__getitem___gated(self, index, cs) ==
    LET c == Call_condition(self, <<index>>) IN
    IF c.exc # NoExc THEN [ret |-> c, cachers |-> cs]
    ELSE IF c.val.bool THEN Cacher__getitem__(cs, self.cacher, index)
    ELSE [ret |-> Raise("KeyError"), cachers |-> cs]

Modifier__getitem__(self, index, cs) ==
    Cacher__getitem__(cs, self.cacher, index)

(***************************************************************************)
(* Calls.  `last` records a call as [op, self, args, ret]; self of a       *)
(* constructor call is the new instance, on which nothing is set yet.      *)
(***************************************************************************)
Args ==
    [cacher |-> NoCacher, index |-> 0, data |-> "", p |-> <<0, 1>>, length |-> 0,
     indices |-> <<>>, modifiers |-> <<>>]

Call(op, self, args, ret) == [op |-> op, self |-> self, args |-> args, ret |-> ret]

New(cls) == Object(cls, NoCacher)

NoCall == Call("", New(""), Args, Return(None))

(***************************************************************************)
(* Spec: constructing, combining and evaluating modifiers.  The leaves are *)
(* index modifiers and Indices; percentage modifiers are built in          *)
(* ProxySpec.                                                              *)
(***************************************************************************)
Init ==
    /\ modifiers = {}
    /\ cachers = [c \in Cachers |-> EmptyCacher]
    /\ last = NoCall
    /\ ctor = NoCall
    /\ issued = {}
    /\ warm = FALSE

\* the state after a call that returned a new modifier, or raised
Created(call) ==
    /\ modifiers' = IF call.ret.exc = NoExc
                    THEN modifiers \cup {call.ret.val.obj[1]} ELSE modifiers
    /\ last' = call
    /\ UNCHANGED <<cachers, ctor, issued, warm>>

IndexInit ==
    /\ Cardinality(modifiers) < MaxMods
    /\ \E cls \in IndexClasses, cacher \in Cachers, index \in IndexArgs :
          Created(Call("__init__", New(cls),
                       [Args EXCEPT !.cacher = cacher, !.index = index],
                       _Index__init__(cls, cacher, index)))

IndicesInit ==
    /\ Cardinality(modifiers) < MaxMods
    /\ \E cacher \in Cachers, indices \in IndexLists :
          Created(Call("__init__", New("Indices"),
                       [Args EXCEPT !.cacher = cacher, !.indices = indices],
                       Indices__init__(cacher, indices)))

Tuples(S, n) == UNION {[1..k -> S] : k \in 0..n}

MixInit ==
    /\ Cardinality(modifiers) < MaxMods
    /\ \E cls \in MixClasses, mods \in Tuples(modifiers, MaxArity) :
          Created(Call("__init__", New(cls), [Args EXCEPT !.modifiers = mods],
                       _Mix__init__(cls, mods)))

Or ==
    /\ Cardinality(modifiers) < MaxMods
    /\ \E self \in modifiers, other \in modifiers :
          Created(Call("__or__", self, [Args EXCEPT !.modifiers = <<other>>],
                       Modifier__or__(self, other)))

And ==
    /\ Cardinality(modifiers) < MaxMods
    /\ \E self \in modifiers, other \in modifiers :
          Created(Call("__and__", self, [Args EXCEPT !.modifiers = <<other>>],
                       Modifier__and__(self, other)))

Condition ==
    \E self \in modifiers, index \in Indexes :
        /\ last' = Call("condition", self, [Args EXCEPT !.index = index],
                        Call_condition(self, <<index>>))
        /\ UNCHANGED <<modifiers, cachers, ctor, issued, warm>>

Next ==
    \/ IndexInit
    \/ IndicesInit
    \/ MixInit
    \/ Or
    \/ And
    \/ Condition

Spec == Init /\ [][Next]_vars

(***************************************************************************)
(* ProxySpec: the state right after one constructor call, then the proxy   *)
(* methods (and condition) of the modifier that call produced.  The        *)
(* wrapped cacher is either empty or already holds a sample "w" for every  *)
(* index (a cache that was filled before it was wrapped).  The operands of *)
(* a composite are leaf modifiers built from the arguments Spec uses.      *)
(***************************************************************************)
Operands ==
    {_Index__init__(cls, cacher, index).val.obj[1] :
        cls \in IndexClasses, cacher \in Cachers, index \in IndexArgs}
    \cup {_Percent__init__(cls, cacher, <<2, 4>>, 3).val.obj[1] :
        cls \in PercentClasses, cacher \in Cachers}
    \cup {Indices__init__(cacher, indices).val.obj[1] :
        cacher \in Cachers, indices \in IndexLists}

WarmCacher == [data |-> [k \in Indexes |-> "w"], ncontains |-> 0]

Wrapped(call) ==
    /\ ctor = call
    /\ last = call
    /\ issued = {}
    /\ IF call.ret.exc = NoExc
       THEN /\ modifiers = {call.ret.val.obj[1]}
            /\ warm \in BOOLEAN
            /\ cachers = [c \in Cachers |->
                            IF warm /\ c = call.ret.val.obj[1].cacher
                            THEN WarmCacher ELSE EmptyCacher]
       ELSE /\ modifiers = {}
            /\ warm = FALSE
            /\ cachers = [c \in Cachers |-> EmptyCacher]

ProxyInit ==
    \/ \E cls \in IndexClasses, cacher \in ProxyCachers, index \in ProxyIndexArgs :
          Wrapped(Call("__init__", New(cls),
                       [Args EXCEPT !.cacher = cacher, !.index = index],
                       _Index__init__(cls, cacher, index)))
    \/ \E cls \in PercentClasses, cacher \in ProxyCachers, p \in ProxyPs, length \in ProxyLengths :
          Wrapped(Call("__init__", New(cls),
                       [Args EXCEPT !.cacher = cacher, !.p = p, !.length = length],
                       _Percent__init__(cls, cacher, p, length)))
    \/ \E cacher \in ProxyCachers, indices \in ProxyIndexLists :
          Wrapped(Call("__init__", New("Indices"),
                       [Args EXCEPT !.cacher = cacher, !.indices = indices],
                       Indices__init__(cacher, indices)))
    \/ \E cls \in MixClasses, mods \in Tuples(Operands, MaxArity) :
          Wrapped(Call("__init__", New(cls), [Args EXCEPT !.modifiers = mods],
                       _Mix__init__(cls, mods)))

Contains ==
    \E self \in modifiers, index \in Indexes :
        /\ cachers[self.cacher].ncontains < MaxCalls
        /\ LET r == Modifier__contains__(self, index, cachers) IN
           /\ cachers' = r.cachers
           /\ last' = Call("__contains__", self, [Args EXCEPT !.index = index], r.ret)
        /\ UNCHANGED <<modifiers, ctor, issued, warm>>

SetItem ==
    \E self \in modifiers, index \in Indexes, data \in Data :
        /\ LET r == Modifier__setitem__(self, index, data, cachers) IN
           /\ cachers' = r.cachers
           /\ last' = Call("__setitem__", self,
                           [Args EXCEPT !.index = index, !.data = data], r.ret)
        /\ issued' = issued \cup {index}
        /\ UNCHANGED <<modifiers, ctor, warm>>

GetItem ==
    \E self \in modifiers, index \in Indexes :
        /\ LET r == Modifier__getitem__(self, index, cachers) IN
           /\ cachers' = r.cachers
           /\ last' = Call("__getitem__", self, [Args EXCEPT !.index = index], r.ret)
        /\ UNCHANGED <<modifiers, ctor, issued, warm>>

ProxyNext ==
    \/ Contains
    \/ SetItem
    \/ GetItem
    \/ Condition

ProxySpec == ProxyInit /\ [][ProxyNext]_vars

(***************************************************************************)
(* Properties.                                                             *)
(***************************************************************************)
IsLeaf(m) == type(m) \notin MixClasses

CondTrue(m, i) ==
    Call_condition(m, <<i>>).exc = NoExc /\ Call_condition(m, <<i>>).val.bool

CondFalse(m, i) ==
    Call_condition(m, <<i>>).exc = NoExc /\ ~Call_condition(m, <<i>>).val.bool

\* floor(length * p) for p = p[1]/p[2]
Floor(length, p) == (length * p[1]) \div p[2]

\* C1: m.contains(i) returns condition(i) AND store.contains(i); when the
\* condition is false the answer is False and the store's contains is not
\* called (its call count, like everything else in the store, is unchanged);
\* when the condition is true the store's contains is called once; a failing
\* condition fails the call the same way, with the store not called.
C1_ContainsGate ==
    [][last'.op = "__contains__" =>
        LET self  == last'.self
            i     == last'.args.index
            c     == Call_condition(self, <<i>>)
            store == cachers[self.cacher]
        IN  /\ CondTrue(self, i) =>
                 /\ last'.ret = Return(Bool(i \in DOMAIN store.data))
                 /\ cachers'[self.cacher].ncontains = store.ncontains + 1
                 /\ cachers'[self.cacher].data = store.data
            /\ CondFalse(self, i) =>
                 /\ last'.ret = Return(Bool(FALSE))
                 /\ cachers' = cachers
            /\ c.exc # NoExc =>
                 /\ last'.ret = c
                 /\ cachers' = cachers
    ]_vars

\* C1 witness: contains was asked for an index the store holds but the
\* condition excludes; the answer is False and the store was never queried.
C1_Witness ==
    /\ last.op = "__contains__"
    /\ CondFalse(last.self, last.args.index)
    /\ last.args.index \in DOMAIN cachers[last.self.cacher].data
    /\ last.ret = Return(Bool(FALSE))
    /\ cachers[last.self.cacher].ncontains = 0

\* C2: m.set(i, v) with the condition false raises nothing and leaves the
\* store unchanged, and a following m.contains(i) is False; with the condition
\* true it stores v under i and changes nothing else, and a following
\* m.contains(i) is the store's membership of i after the write.
C2_SetGate ==
    [][last'.op = "__setitem__" =>
        LET self == last'.self
            i    == last'.args.index
            v    == last'.args.data
            c    == self.cacher
            old  == cachers[c].data
            new  == cachers'[c].data
        IN  /\ CondFalse(self, i) =>
                 /\ last'.ret = Return(None)
                 /\ cachers' = cachers
                 /\ Modifier__contains__(self, i, cachers').ret = Return(Bool(FALSE))
            /\ CondTrue(self, i) =>
                 /\ last'.ret = Return(None)
                 /\ DOMAIN new = DOMAIN old \cup {i}
                 /\ new[i] = v
                 /\ \A k \in DOMAIN old \ {i} : new[k] = old[k]
                 /\ cachers'[c].ncontains = cachers[c].ncontains
                 /\ \A d \in Cachers \ {c} : cachers'[d] = cachers[d]
                 /\ Modifier__contains__(self, i, cachers').ret
                        = Return(Bool(i \in DOMAIN new))
    ]_vars

\* C2 witness: set was called for an excluded index and was skipped
\* silently, in a store that holds another index written through the modifier.
C2_Witness ==
    /\ last.op = "__setitem__"
    /\ CondFalse(last.self, last.args.index)
    /\ last.ret = Return(None)
    /\ ~warm
    /\ last.args.index \notin DOMAIN cachers[last.self.cacher].data
    /\ \E j \in DOMAIN cachers[last.self.cacher].data : CondTrue(last.self, j)

\* C6: m.get(i) returns what the store holds under i, or fails with the
\* store's KeyError when it holds nothing, whatever the condition says, and
\* does not modify the store.
C6_GetUnconditional ==
    [][last'.op = "__getitem__" =>
        LET self == last'.self
            i    == last'.args.index
            d    == cachers[self.cacher].data
        IN  /\ last'.ret = IF i \in DOMAIN d THEN Return(Smp(d[i])) ELSE Raise("KeyError")
            /\ cachers' = cachers
    ]_vars

\* C6 witness: get returned a stored sample for an index the condition
\* excludes.
C6_Witness ==
    /\ last.op = "__getitem__"
    /\ CondFalse(last.self, last.args.index)
    /\ last.ret.exc = NoExc
    /\ last.ret.val.kind = "sample"

\* the children of the composite the last call was asked to build
IsMixCall(call) ==
    \/ call.op \in {"__or__", "__and__"}
    \/ call.op = "__init__" /\ type(call.self) \in MixClasses

MixChildren(call) ==
    IF call.op = "__init__" THEN call.args.modifiers
    ELSE <<call.self>> \o call.args.modifiers

\* what a modifier's condition is meant to answer at index i
RECURSIVE Meant(_, _)
Meant(m, i) ==
    CASE type(m) = "All" -> \A k \in 1..Len(m.modifiers) : Meant(m.modifiers[k], i)
      [] type(m) = "Any" -> \E k \in 1..Len(m.modifiers) : Meant(m.modifiers[k], i)
      [] OTHER           -> CondTrue(m, i)

\* C3: the condition of a composite returns a boolean, the AND (All) or the
\* OR (Any) of its children's conditions at the same index.
C3_CompositeCondition ==
    (last.op = "condition" /\ type(last.self) \in MixClasses)
        => /\ last.ret.exc = NoExc
           /\ last.ret = Return(Bool(Meant(last.self, last.args.index)))

SameOrDerived(t, ft) ==
    \/ t = ft
    \/ t = UserClass /\ ft = "UpToIndex"

C5_UpToOrFrom ==
    (/\ last.op = "__or__"
     /\ type(last.self) = "UpToIndex"
     /\ type(last.args.modifiers[1]) = "FromIndex"
     /\ last.self.cacher = last.args.modifiers[1].cacher)
        => /\ last.ret.exc = NoExc
           /\ \A i \in Indexes :
                Call_condition(last.ret.val.obj[1], <<i>>)
                    = Return(Bool(i < last.self.index \/ i > last.args.modifiers[1].index))

\* C9: combining two modifiers that wrap different cachers with | or & raises.
C9_SameCacherRequired ==
    (/\ last.op \in {"__or__", "__and__"}
     /\ last.self.cacher # last.args.modifiers[1].cacher)
        => last.ret.exc # NoExc

\* the threshold a threshold modifier was configured with by its constructor
\* call: the index given, or floor(length * p)
UpToClasses == {"UpToIndex", UserClass, "UpToPercentage"}
FromClasses == {"FromIndex", "FromPercentage"}

Configured(call) ==
    IF type(call.self) \in PercentClasses
    THEN Floor(call.args.length, call.args.p)
    ELSE call.args.index

C10_StoreWithinCondition ==
    \A m \in modifiers : (IsLeaf(m) /\ ~warm) =>
        /\ \A i \in DOMAIN cachers[m.cacher].data : CondTrue(m, i)
        /\ \A i \in Indexes :
              (Modifier__contains__(m, i, cachers).ret = Return(Bool(TRUE)))
                  <=> (i \in issued /\ CondTrue(m, i))

\* C10 witness: set was called both for an index the condition excludes and
\* for one it admits, which the store now holds.
C10_Witness ==
    \E m \in modifiers :
        /\ IsLeaf(m) /\ ~warm
        /\ \E i \in issued : CondFalse(m, i)
        /\ \E j \in DOMAIN cachers[m.cacher].data : j \in issued

====
